---- MODULE Spec2Model ----
(***************************************************************************)
(* Model of deploy-skills.py (tteamtm/dbcli): resolution of the skills     *)
(* source, injection of the DbCli rules block into host files, and the     *)
(* four deployment targets driven by main().                               *)
(*                                                                         *)
(* The file system is a function from absolute paths (sequences of names)  *)
(* to nodes.  A node is a directory or a regular file; a file's data is a  *)
(* sequence of text tokens (the newline is one of them), so that a         *)
(* substring test such as (marker in existing) is  a search for a token.    *)
(***************************************************************************)
EXTENDS Integers, Sequences, FiniteSets, TLC

VARIABLES
    fs,             \* the file system: absolute path -> node
    cwd,            \* the process's working directory (absolute path)
    env,            \* the run's environment: unwritable paths, lock behaviour
    pc,             \* main()'s position
    args,           \* the parsed command line of the current run
    SKILLS_SOURCE,  \* the module global set by main()
    ret,            \* the value returned by the last call under study
    exitCode,       \* exit status of the last finished run (-1: none yet)
    out,            \* console messages printed by the last step
    reply,          \* what the operator typed at the last step's prompt
    gone,           \* whether the last step removed a path that existed
    runs,           \* number of runs of main() started
    edits           \* number of changes made to the source between runs

vars == <<fs, cwd, env, pc, args, SKILLS_SOURCE, ret, exitCode, out, reply,
          gone, runs, edits>>

-----------------------------------------------------------------------------
(* Bounds of the model                                                     *)

MaxRuns == 2
MaxEdits == 1
MaxCalls == 2
MaxFails == 3

-----------------------------------------------------------------------------
(* Paths (pathlib.Path)                                                    *)

\* A Path value: absolute, or relative to the working directory.
AbsPath(parts) == [abs |-> TRUE, parts |-> parts]
RelPath(parts) == [abs |-> FALSE, parts |-> parts]

\* Path / name
Join(p, name) == [p EXCEPT !.parts = @ \o <<name>>]

\* The absolute location a Path denotes for a process working in c.
Resolve(c, p) == IF p.abs THEN p.parts ELSE c \o p.parts

IsPrefix(p, q) == Len(p) <= Len(q) /\ SubSeq(q, 1, Len(p)) = p

Ancestors(p) == {SubSeq(p, 1, k) : k \in 1..Len(p)}

Parent(p) == SubSeq(p, 1, Len(p) - 1)

Tail2(q, n) == SubSeq(q, n + 1, Len(q))

\* Path.home(), the directory holding the script, and the project directory
\* the script is run from when it is run from elsewhere.
Home == <<"home">>
ScriptDir == <<"repo">>
ProjDir == <<"proj">>

-----------------------------------------------------------------------------
(* File-system primitives (os, shutil, pathlib)                            *)

DirNode == [dir |-> TRUE, data |-> <<>>]
FileNode(d) == [dir |-> FALSE, data |-> d]

Exists(f, p) == p \in DOMAIN f
IsDir(f, p) == p \in DOMAIN f /\ f[p].dir
IsFile(f, p) == p \in DOMAIN f /\ ~f[p].dir

\* The names directly inside directory p (Path.iterdir).
Children(f, p) == {q[Len(p) + 1] : q \in {r \in DOMAIN f : IsPrefix(p, r) /\ Len(r) > Len(p)}}

\* Path.mkdir(parents=True, exist_ok=True)
Mkdirs(f, p) ==
    [q \in DOMAIN f \cup Ancestors(p) |-> IF q \in DOMAIN f THEN f[q] ELSE DirNode]

\* shutil.rmtree on a tree that can be removed.
Rmtree(f, p) == [q \in {r \in DOMAIN f : ~IsPrefix(p, r)} |-> f[q]]

\* Writing a whole file (open(path, "w") or shutil.copy2 onto path).
WriteFile(f, p, d) ==
    [q \in DOMAIN f \cup {p} |-> IF q = p THEN FileNode(d) ELSE f[q]]

\* shutil.copy2(src, dst), both regular-file paths.
Copy2(f, src, dst) == WriteFile(f, dst, f[src].data)

\* The image of the tree rooted at src under dst.
TreeImage(f, src, dst) ==
    LET under == {q \in DOMAIN f : IsPrefix(src, q)}
        img == {dst \o Tail2(q, Len(src)) : q \in under}
    IN [r \in img |-> f[src \o Tail2(r, Len(dst))]]

\* shutil.copytree(src, dst) (also with dirs_exist_ok=True: entries of src
\* overwrite, other entries of dst stay).  When dst lies inside src the copy
\* descends into its own output until the operating system refuses a path;
\* the model keeps the first level of that output and reports the error.
Copytree(f, src, dst) ==
    LET img == TreeImage(f, src, dst)
        g == Mkdirs(f, dst)
    IN [fs |-> [q \in DOMAIN g \cup DOMAIN img |->
                    IF q \in DOMAIN img THEN img[q] ELSE g[q]],
        err |-> IsPrefix(src, dst)]

-----------------------------------------------------------------------------
(* Text: a file's data is a sequence of tokens; NL is the newline.         *)

NL == "\n"

marker == "DBCLI_RULES_START"
endMarker == "DBCLI_RULES_END"

\* The sentinel pair of the integration guide and of block-comment hosts.
StartSentinel == <<"<!-- ", marker, " -->">>
EndSentinel == <<"<!-- ", endMarker, " -->">>

\* tok in text
Contains(text, tok) == \E i \in 1..Len(text) : text[i] = tok

\* Whether pattern pat occurs in text at position i.
MatchAt(text, pat, i) ==
    i >= 1 /\ i + Len(pat) - 1 <= Len(text) /\ SubSeq(text, i, i + Len(pat) - 1) = pat

\* Positions at or after from where pat occurs.
Occurrences(text, pat, from) == {i \in from..Len(text) : MatchAt(text, pat, i)}

Min(S) == CHOOSE x \in S : \A y \in S : x <= y

\* str.strip() (and the \s* of the regular expressions): NL is the only
\* white space of the model's texts.
RECURSIVE LStrip(_)
LStrip(t) == IF t # <<>> /\ Head(t) = NL THEN LStrip(Tail(t)) ELSE t

RECURSIVE RStrip(_)
RStrip(t) == IF t # <<>> /\ t[Len(t)] = NL THEN RStrip(SubSeq(t, 1, Len(t) - 1)) ELSE t

Strip(t) == RStrip(LStrip(t))

\* str.splitlines(): the lines of t, without a last empty line.
RECURSIVE SplitFrom(_, _)
SplitFrom(t, cur) ==
    IF t = <<>> THEN (IF cur = <<>> THEN <<>> ELSE <<cur>>)
    ELSE IF Head(t) = NL THEN <<cur>> \o SplitFrom(Tail(t), <<>>)
    ELSE SplitFrom(Tail(t), Append(cur, Head(t)))

splitlines(t) == SplitFrom(t, <<>>)

\* "\n".join(lines)
RECURSIVE JoinLines(_)
JoinLines(ls) ==
    IF ls = <<>> THEN <<>>
    ELSE IF Len(ls) = 1 THEN ls[1]
    ELSE ls[1] \o <<NL>> \o JoinLines(Tail(ls))

\* Path.suffix of a file name, and str.lower() of a suffix.
Suffix(name) ==
    CASE name \in {"CLAUDE.md", "Claude.md", "AGENTS.md", "Agents.md",
                   "context.md", "copilot-instructions.md"} -> ".md"
      [] name = "skills.yaml" -> ".yaml"
      [] name = "skills.yml" -> ".yml"
      [] name = "rules.YML" -> ".YML"
      [] name = "rules.Yaml" -> ".Yaml"
      [] OTHER -> ""

\* A lower() that leaves the case as it is.
keep_case(s) == s

Lower(s) ==
    CASE s = ".YML" -> ".yml"
      [] s = ".Yaml" -> ".yaml"
      [] OTHER -> s

-----------------------------------------------------------------------------
(* resolve_skills_source                                                   *)

\* The three candidates, in the order the function tries them.
script_skills == AbsPath(ScriptDir \o <<"skills">>)
tools_skills == AbsPath(Home \o <<"tools", "dbcli", "skills">>)
cwd_skills == RelPath(<<"skills">>)

Candidates == <<script_skills, tools_skills, cwd_skills>>

\* Path() : the value returned when no candidate qualifies.
NotFound == RelPath(<<>>)

\* The test each candidate is put to.
Qualifies(f, c, cand) ==
    /\ Exists(f, Resolve(c, Join(cand, "INTEGRATION.md")))
    /\ Exists(f, Resolve(c, Join(Join(cand, "dbcli-query"), "SKILL.md")))

\* A resolver that tries the working directory's skills ahead of ~/tools.
resolve_cwd_before_tools(f, c) ==
    IF Qualifies(f, c, script_skills) THEN script_skills
    ELSE IF Qualifies(f, c, cwd_skills) THEN cwd_skills
    ELSE IF Qualifies(f, c, tools_skills) THEN tools_skills
    ELSE NotFound

resolve_skills_source(f, c) ==
    IF Qualifies(f, c, script_skills) THEN script_skills
    ELSE IF Qualifies(f, c, tools_skills) THEN tools_skills
    ELSE IF Qualifies(f, c, cwd_skills) THEN cwd_skills
    ELSE NotFound

-----------------------------------------------------------------------------
(* The rules block and its injection into host files                       *)

\* get_dbcli_rules_block: the text between the first opening sentinel of
\* INTEGRATION.md and the first closing sentinel after it, stripped;
\* empty when the guide or the region is missing.
get_dbcli_rules_block(f, c, src) ==
    LET integration_path == Resolve(c, Join(src, "INTEGRATION.md"))
    IN IF ~Exists(f, integration_path) THEN <<>>
       ELSE LET content == f[integration_path].data
                starts == Occurrences(content, StartSentinel, 1)
            IN IF starts = {} THEN <<>>
               ELSE LET s == Min(starts)
                        ends == Occurrences(content, EndSentinel, s + Len(StartSentinel))
                    IN IF ends = {} THEN <<>>
                       ELSE Strip(SubSeq(content, s + Len(StartSentinel), Min(ends) - 1))

\* The block appended to a host file, by the host's extension.
CommentLine(line) == <<"# ">> \o line

\* A block whose opening line lacks the marker.
block_without_marker(name, rules_text) ==
    <<NL, NL, "<!-- rules -->", NL>> \o rules_text \o <<NL>> \o EndSentinel \o <<NL>>

RulesBlock(name, rules_text) ==
    IF Lower(Suffix(name)) \in {".yml", ".yaml"}
    THEN LET ls == splitlines(rules_text)
             commented == JoinLines([i \in 1..Len(ls) |-> CommentLine(ls[i])])
         IN <<NL, NL, "# ", marker, NL>> \o commented \o <<NL, "# ", endMarker, NL>>
    ELSE <<NL, NL>> \o StartSentinel \o <<NL>> \o rules_text \o <<NL>> \o EndSentinel \o <<NL>>

\* An injection that never looks for the marker.
append_without_marker_check(f, lk, path, rules_text) ==
    IF rules_text = <<>> THEN [fs |-> f, err |-> FALSE]
    ELSE LET g == Mkdirs(f, Parent(path))
             existing == IF Exists(f, path) THEN f[path].data ELSE <<>>
         IN IF path \in lk THEN [fs |-> g, err |-> TRUE]
            ELSE [fs |-> WriteFile(g, path, existing \o RulesBlock(path[Len(path)], rules_text)),
                  err |-> FALSE]

\* An injection that looks for the block-comment sentinel only.
append_block_comment_check(f, lk, path, rules_text) ==
    IF rules_text = <<>> THEN [fs |-> f, err |-> FALSE]
    ELSE IF Exists(f, path) /\ Occurrences(f[path].data, StartSentinel, 1) # {}
    THEN [fs |-> f, err |-> FALSE]
    ELSE LET g == Mkdirs(f, Parent(path))
             existing == IF Exists(f, path) THEN f[path].data ELSE <<>>
         IN IF path \in lk THEN [fs |-> g, err |-> TRUE]
            ELSE [fs |-> WriteFile(g, path, existing \o RulesBlock(path[Len(path)], rules_text)),
                  err |-> FALSE]

\* append_dbcli_rules_to_file(path, rules_text), path absolute here.
\* Returns the new file system and whether the call raised.
append_dbcli_rules_to_file(f, lk, path, rules_text) ==
    IF rules_text = <<>> THEN [fs |-> f, err |-> FALSE]
    ELSE IF Exists(f, path) /\ Contains(f[path].data, marker) THEN [fs |-> f, err |-> FALSE]
    ELSE LET g == Mkdirs(f, Parent(path))
             existing == IF Exists(f, path) THEN f[path].data ELSE <<>>
         IN IF path \in lk THEN [fs |-> g, err |-> TRUE]
            ELSE [fs |-> WriteFile(g, path, existing \o RulesBlock(path[Len(path)], rules_text)),
                  err |-> FALSE]

\* The host files of append_dbcli_rules, in list order, and the one added
\* by include_copilot.
rule_files ==
    << <<"CLAUDE.md">>, <<"Claude.md">>, <<"AGENTS.md">>, <<"Agents.md">>,
       <<".cursorrules">>, <<".vscode", "context.md">>,
       <<".gemini", "skills.yaml">>, <<".gemini", "skills.yml">> >>

copilot_file == <<".github", "copilot-instructions.md">>

\* The loop over the host files: an exception raised for one file ends it.
RECURSIVE AppendEach(_, _, _, _, _)
AppendEach(f, lk, c, files, rules) ==
    IF files = <<>> THEN [fs |-> f, err |-> FALSE]
    ELSE LET r == append_dbcli_rules_to_file(f, lk, c \o Head(files), rules)
         IN IF r.err THEN r ELSE AppendEach(r.fs, lk, c, Tail(files), rules)

append_dbcli_rules(f, lk, c, src, include_copilot) ==
    LET rules == get_dbcli_rules_block(f, c, src)
    IN IF rules = <<>> THEN [fs |-> f, err |-> FALSE, out |-> <<"warn:no-rules">>]
       ELSE LET files == IF include_copilot THEN Append(rule_files, copilot_file)
                         ELSE rule_files
                r == AppendEach(f, lk, c, files, rules)
            IN [fs |-> r.fs, err |-> r.err, out |-> <<>>]

-----------------------------------------------------------------------------
(* rmtree_force and the copy loops of the deployers                        *)

\* range(3): the attempts rmtree_force makes.
RmAttempts == 3

\* A removal that returns without removing anything.
rmtree_removes_nothing(f, path, n) ==
    [fs |-> f, err |-> FALSE, attempts |-> 1, sleeps |-> 0]

\* A loop that returns as if the tree were removed once its attempts are
\* used up.
RECURSIVE rmtree_giving_up_silently(_, _, _, _)
rmtree_giving_up_silently(f, path, fails, attempt) ==
    LET raised == IF attempt + 1 <= Len(fails) THEN fails[attempt + 1] ELSE ""
    IN IF raised = ""
       THEN [fs |-> Rmtree(f, path), err |-> FALSE, attempts |-> attempt + 1, sleeps |-> attempt]
       ELSE IF attempt = RmAttempts - 1
       THEN [fs |-> f, err |-> FALSE, attempts |-> attempt + 1, sleeps |-> attempt]
       ELSE rmtree_giving_up_silently(f, path, fails, attempt + 1)

\* The loop of rmtree_force from attempt on (counted from 0).  fails lists
\* what the successive calls of shutil.rmtree raise; a call past the end of
\* the list removes the tree.  The result tells the attempts made and the
\* sleeps taken.
RECURSIVE rmtree_attempt(_, _, _, _)
rmtree_attempt(f, path, fails, attempt) ==
    LET raised == IF attempt + 1 <= Len(fails) THEN fails[attempt + 1] ELSE ""
    IN IF raised = ""
       THEN [fs |-> Rmtree(f, path), err |-> FALSE, attempts |-> attempt + 1, sleeps |-> attempt]
       ELSE IF raised = "PermissionError" /\ attempt # RmAttempts - 1
       THEN rmtree_attempt(f, path, fails, attempt + 1)
       ELSE [fs |-> f, err |-> TRUE, attempts |-> attempt + 1, sleeps |-> attempt]

\* rmtree_force(path) when its attempts raise what n lists.
rmtree_force(f, path, n) == rmtree_attempt(f, path, n, 0)

\* The body of the deployers' loops for one item: a directory is copied as
\* a tree (after removing the destination's, unless merging), a file with
\* copy2; an item the source lacks is passed over.
CopyItem(f, srcdir, dstdir, item, merge) ==
    LET sp == srcdir \o <<item>>
        dp == dstdir \o <<item>>
    IN IF ~Exists(f, sp) THEN [fs |-> f, err |-> FALSE]
       ELSE IF IsDir(f, sp)
            THEN Copytree(IF Exists(f, dp) /\ ~merge THEN Rmtree(f, dp) ELSE f, sp, dp)
            ELSE [fs |-> Copy2(f, sp, dp), err |-> FALSE]

RECURSIVE CopyItems(_, _, _, _, _)
CopyItems(f, srcdir, dstdir, items, merge) ==
    IF items = <<>> THEN [fs |-> f, err |-> FALSE]
    ELSE LET r == CopyItem(f, srcdir, dstdir, Head(items), merge)
         IN IF r.err THEN r ELSE CopyItems(r.fs, srcdir, dstdir, Tail(items), merge)

\* A set of items in some order.
RECURSIVE SeqOf(_)
SeqOf(S) == IF S = {} THEN <<>> ELSE LET x == CHOOSE y \in S : TRUE
                                     IN <<x>> \o SeqOf(S \ {x})

-----------------------------------------------------------------------------
(* Packaging of a bundle as an upload archive.  An archive is a file whose *)
(* data is the sequence of its entries, each with its path in the archive. *)

\* The bundle names of the model in the order of sorted().
NameOrder == <<"a", "b", "c", "custom", "dbcli-exec", "dbcli-query", "missing">>

Sorted(S) == SelectSeq(NameOrder, LAMBDA n : n \in S)

\* f"{skill_name}.zip" and the directory mkdtemp makes for a bundle.
ZipName(skill_name) ==
    CASE skill_name = "a" -> "a.zip"
      [] skill_name = "b" -> "b.zip"
      [] skill_name = "c" -> "c.zip"
      [] skill_name = "dbcli-query" -> "dbcli-query.zip"
      [] skill_name = "missing" -> "missing.zip"
      [] OTHER -> "other.zip"

TempName(skill_name) ==
    CASE skill_name = "a" -> "claude-skill-a-x"
      [] skill_name = "b" -> "claude-skill-b-x"
      [] skill_name = "c" -> "claude-skill-c-x"
      [] skill_name = "dbcli-query" -> "claude-skill-dbcli-query-x"
      [] OTHER -> "claude-skill-other-x"

TempDir == <<"tmp">>

\* name.lower() of a file name.
NameLower(name) ==
    IF name \in {"SKILL.md", "Skill.md", "skill.md", "SKILL.MD"} THEN "skill.md" ELSE name

get_claude_skill_names(f, skills_source) ==
    Sorted({n \in Children(f, skills_source) :
              /\ IsDir(f, skills_source \o <<n>>)
              /\ Exists(f, skills_source \o <<n, "SKILL.md">>)})

\* shutil.copytree(src, dst) when the files in unreadable cannot be read:
\* the other entries are copied and the call raises at its end.
CopytreeFrom(f, src, dst, unreadable) ==
    LET img == TreeImage(f, src, dst)
        kept == {r \in DOMAIN img : (src \o Tail2(r, Len(dst))) \notin unreadable}
        g == Mkdirs(f, dst)
    IN [fs |-> [q \in DOMAIN g \cup kept |-> IF q \in kept THEN img[q] ELSE g[q]],
        err |-> kept # DOMAIN img]

\* The entry of the archive for the staged file at rel below the bundle.
ArcName(skill_name, rel) ==
    <<skill_name>> \o (IF NameLower(rel[Len(rel)]) = "skill.md"
                       THEN SubSeq(rel, 1, Len(rel) - 1) \o <<"Skill.md">>
                       ELSE rel)

ZipEntries(f, staged_skill_dir, skill_name) ==
    LET files == {q \in DOMAIN f : IsPrefix(staged_skill_dir, q) /\ IsFile(f, q)}
        order == SeqOf(files)
    IN <<[name |-> <<skill_name>>, dir |-> TRUE, data |-> <<>>]>>
       \o [i \in 1..Len(order) |->
             [name |-> ArcName(skill_name, Tail2(order[i], Len(staged_skill_dir))),
              dir |-> FALSE, data |-> f[order[i]].data]]

\* A packaging that prepares the output path before it looks for the bundle.
package_preparing_output_first(f, e, skill_name, skills_source, out_dir) ==
    LET zip_path == out_dir \o <<ZipName(skill_name)>>
        f1 == Mkdirs(f, out_dir)
    IN [fs |-> IF Exists(f1, zip_path) THEN Rmtree(f1, zip_path) ELSE f1,
        err |-> "FileNotFoundError", warned |-> FALSE, temp |-> <<>>]

\* A packaging that leaves its staging directory behind when the copy fails.
package_keeping_staging(f, e, skill_name, skills_source, out_dir) ==
    LET src_dir == skills_source \o <<skill_name>>
        zip_path == out_dir \o <<ZipName(skill_name)>>
        temp_root == TempDir \o <<TempName(skill_name)>>
        staged_skill_dir == temp_root \o <<skill_name>>
    IN IF ~Exists(f, src_dir)
       THEN [fs |-> f, err |-> "FileNotFoundError", warned |-> FALSE, temp |-> <<>>]
       ELSE LET cp == CopytreeFrom(Mkdirs(Mkdirs(f, out_dir), temp_root), src_dir,
                                   staged_skill_dir, e.unreadable)
            IN IF cp.err \/ zip_path \in e.locked
               THEN [fs |-> cp.fs, err |-> "Error", warned |-> FALSE, temp |-> temp_root]
               ELSE [fs |-> Rmtree(WriteFile(cp.fs, zip_path,
                                             ZipEntries(cp.fs, staged_skill_dir, skill_name)),
                                   temp_root),
                     err |-> "", warned |-> FALSE, temp |-> temp_root]

\* package_claude_skill_zip(skill_name, skills_source, out_dir), the paths
\* absolute here.  Returns the new file system, the exception raised ("" when
\* none), whether the warning was printed, and the staging directory used.
package_claude_skill_zip(f, e, skill_name, skills_source, out_dir) ==
    LET src_dir == skills_source \o <<skill_name>>
        zip_path == out_dir \o <<ZipName(skill_name)>>
        temp_root == TempDir \o <<TempName(skill_name)>>
        staged_skill_dir == temp_root \o <<skill_name>>
    IN IF ~Exists(f, src_dir)
       THEN [fs |-> f, err |-> "FileNotFoundError", warned |-> FALSE, temp |-> <<>>]
       ELSE LET f1 == Mkdirs(f, out_dir)
                f2 == IF Exists(f1, zip_path) THEN Rmtree(f1, zip_path) ELSE f1
                f3 == Mkdirs(f2, temp_root)
                cp == CopytreeFrom(f3, src_dir, staged_skill_dir, e.unreadable)
                has_skill_md == \E n \in Children(cp.fs, staged_skill_dir) :
                                   /\ IsFile(cp.fs, staged_skill_dir \o <<n>>)
                                   /\ NameLower(n) = "skill.md"
            IN IF cp.err
               THEN [fs |-> Rmtree(cp.fs, temp_root), err |-> "Error",
                     warned |-> FALSE, temp |-> temp_root]
               ELSE IF zip_path \in e.locked
               THEN [fs |-> Rmtree(cp.fs, temp_root), err |-> "PermissionError",
                     warned |-> ~has_skill_md, temp |-> temp_root]
               ELSE [fs |-> Rmtree(WriteFile(cp.fs, zip_path,
                                             ZipEntries(cp.fs, staged_skill_dir, skill_name)),
                                   temp_root),
                     err |-> "", warned |-> ~has_skill_md, temp |-> temp_root]

claude_skill_items ==
    <<"README.md", "INTEGRATION.md", "CONNECTION_STRINGS.md", "dbcli-query",
      "dbcli-exec", "dbcli-db-ddl", "dbcli-tables", "dbcli-export", "dbcli-view",
      "dbcli-index", "dbcli-procedure", "dbcli-interactive">>

codex_skill_items ==
    <<"dbcli-query", "dbcli-exec", "dbcli-db-ddl", "dbcli-tables", "dbcli-view",
      "dbcli-index", "dbcli-procedure", "dbcli-export", "dbcli-interactive",
      "README.md", "INTEGRATION.md", "CONNECTION_STRINGS.md">>

-----------------------------------------------------------------------------
(* The four deployers.  Each returns the new file system, whether it       *)
(* raised, what it printed and whether it prompted the operator.           *)

Result(f, e, o, a) == [fs |-> f, err |-> e, out |-> o, asked |-> a]

claude_dbcli_dir(claude_dir) == claude_dir \o <<"skills", "dbcli">>
claude_skills_dir(claude_dir) == claude_dbcli_dir(claude_dir) \o <<"skills">>

\* A Claude deployer that cleans its skills directory on every deployment.
deploy_claude_skills_always_clean(f, lk, c, src, claude_dir, force, response, n) ==
    LET dbcli == claude_dbcli_dir(claude_dir)
        skills == claude_skills_dir(claude_dir)
        asked == Exists(f, dbcli) /\ ~force
    IN IF asked /\ response # "y"
       THEN Result(f, FALSE, <<"warn:exists", "info:skipping">>, TRUE)
       ELSE LET f1 == Mkdirs(f, dbcli)
                rm == IF Exists(f1, skills)
                      THEN rmtree_force(f1, skills, n)
                      ELSE [fs |-> f1, err |-> FALSE]
                f2 == Mkdirs(rm.fs, skills)
                cp == CopyItems(f2, Resolve(c, src), skills, claude_skill_items, FALSE)
                ap == append_dbcli_rules(cp.fs, lk, c, src, FALSE)
            IN Result(ap.fs, ap.err, <<"ok:claude">> \o ap.out, asked)

deploy_claude_skills(f, lk, c, src, claude_dir, force, response, n) ==
    LET dbcli == claude_dbcli_dir(claude_dir)
        skills == claude_skills_dir(claude_dir)
        asked == Exists(f, dbcli) /\ ~force
    IN IF asked /\ response # "y"
       THEN Result(f, FALSE, <<"warn:exists", "info:skipping">>, TRUE)
       ELSE LET f1 == Mkdirs(f, dbcli)
                rm == IF force /\ Exists(f1, skills)
                      THEN rmtree_force(f1, skills, n)
                      ELSE [fs |-> f1, err |-> FALSE]
            IN IF rm.err THEN Result(rm.fs, TRUE, <<>>, asked)
               ELSE LET f2 == Mkdirs(rm.fs, skills)
                        cp == CopyItems(f2, Resolve(c, src), skills,
                                        claude_skill_items, FALSE)
                    IN IF cp.err THEN Result(cp.fs, TRUE, <<>>, asked)
                       ELSE LET ap == append_dbcli_rules(cp.fs, lk, c, src, FALSE)
                            IN Result(ap.fs, ap.err, <<"ok:claude">> \o ap.out, asked)

\* The Copilot template: the first markdown fence of the guide's section
\* "## 2. GitHub Copilot Integration", which ends where "## 3." begins.
CopilotHeading == "## 2. GitHub Copilot Integration"
NextHeading == "## 3."
\* [fence] stands for the three backquotes of a markdown code fence.
FenceOpen == "[fence]markdown"
FenceClose == "[fence]"

CopilotSection(content) ==
    LET starts == Occurrences(content, <<CopilotHeading>>, 1)
    IN IF starts = {} THEN <<>>
       ELSE LET s == Min(starts)
                ends == Occurrences(content, <<NextHeading>>, s + 1)
            IN IF ends = {} THEN <<>> ELSE SubSeq(content, s, Min(ends) - 1)

\* [found, text]: the text of the fence, white space around it dropped.
CopilotTemplate(section) ==
    LET opens == Occurrences(section, <<FenceOpen>>, 1)
    IN IF opens = {} THEN [found |-> FALSE, text |-> <<>>]
       ELSE LET o == Min(opens)
                closes == {i \in (o + 1)..Len(section) : section[i] \in {FenceClose, FenceOpen}}
            IN IF closes = {} THEN [found |-> FALSE, text |-> <<>>]
               ELSE [found |-> TRUE, text |-> Strip(SubSeq(section, o + 1, Min(closes) - 1))]

deploy_copilot_instructions(f, lk, c, src, force, response) ==
    LET github_dir == c \o <<".github">>
        instructions_file == github_dir \o <<"copilot-instructions.md">>
        integration_path == Resolve(c, Join(src, "INTEGRATION.md"))
        f1 == Mkdirs(f, github_dir)
        asked == Exists(f1, instructions_file) /\ ~force
    IN IF asked /\ response # "y"
       THEN Result(f1, FALSE, <<"warn:exists", "info:skipping">>, TRUE)
       ELSE IF ~Exists(f1, integration_path)
       THEN Result(f1, FALSE, <<"err:no-integration">>, asked)
       ELSE LET section == CopilotSection(f1[integration_path].data)
                tmpl == CopilotTemplate(section)
            IN IF section = <<>> THEN Result(f1, FALSE, <<"err:no-section">>, asked)
               ELSE IF ~tmpl.found THEN Result(f1, FALSE, <<"err:no-template">>, asked)
               ELSE IF instructions_file \in lk THEN Result(f1, TRUE, <<>>, asked)
               ELSE LET f2 == WriteFile(f1, instructions_file, tmpl.text)
                        ap == append_dbcli_rules(f2, lk, c, src, TRUE)
                    IN Result(ap.fs, ap.err, <<"ok:copilot">> \o ap.out, asked)

workspace_skills_dir(c) == c \o <<"skills", "dbcli">>

\* deploy_workspace_skills.  iterdir gives the source's entries in no fixed
\* order: when copying one of them raises, before holds the entries the
\* loop had already handled.
deploy_workspace_skills(f, c, src, force, n, before) ==
    LET dest == workspace_skills_dir(c)
        source_dir == Resolve(c, src)
    IN IF Exists(f, c \o <<"skills", "dbcli-query">>)
       THEN Result(f, FALSE, <<"warn:in-skills-root", "info:run-elsewhere">>, FALSE)
       ELSE LET rm == IF force /\ Exists(f, dest) THEN rmtree_force(f, dest, n)
                      ELSE [fs |-> f, err |-> FALSE]
            IN IF rm.err THEN Result(rm.fs, TRUE, <<>>, FALSE)
               ELSE LET f1 == Mkdirs(rm.fs, dest)
                    IN IF ~Exists(f1, source_dir)
                       THEN Result(f1, FALSE, <<"err:no-source">>, FALSE)
                       ELSE LET items == Children(f1, source_dir)
                                bad == {i \in items : CopyItem(f1, source_dir, dest, i, FALSE).err}
                            IN IF bad = {}
                               THEN Result(CopyItems(f1, source_dir, dest, SeqOf(items), FALSE).fs,
                                           FALSE, <<"ok:workspace">>, FALSE)
                               ELSE LET first == CHOOSE i \in bad : TRUE
                                        done == CopyItems(f1, source_dir, dest,
                                                          SeqOf((items \ bad) \cap before), FALSE).fs
                                    IN Result(CopyItem(done, source_dir, dest, first, FALSE).fs,
                                              TRUE, <<>>, FALSE)

user_codex_dbcli_dir == Home \o <<".codex", "skills", "dbcli">>
repo_codex_dbcli_dir(c) == c \o <<".codex", "skills", "dbcli">>

\* deploy_codex_skills, first part: the USER scope.
deploy_codex_user(f, c, src, force, n) ==
    LET dir == user_codex_dbcli_dir
        existed == Exists(f, dir)
        rm == IF existed /\ force THEN rmtree_force(f, dir, n) ELSE [fs |-> f, err |-> FALSE]
        o == IF existed THEN (IF force THEN <<"warn:overwrite-user">>
                              ELSE <<"warn:user-exists", "info:use-force">>)
             ELSE <<>>
    IN IF rm.err THEN Result(rm.fs, TRUE, o, FALSE)
       ELSE IF ~Exists(rm.fs, dir) \/ force
       THEN LET f1 == Mkdirs(rm.fs, dir \o <<"skills">>)
                cp == CopyItems(f1, Resolve(c, src), dir \o <<"skills">>,
                                codex_skill_items, FALSE)
            IN Result(cp.fs, cp.err, o \o <<"ok:codex-user">>, FALSE)
       ELSE Result(rm.fs, FALSE, o, FALSE)

\* A REPO scope that does not look for .git.
deploy_codex_repo_without_git_test(f, lk, c, src, force, n) ==
    LET dir == repo_codex_dbcli_dir(c)
    IN IF Exists(f, dir) /\ ~force
       THEN Result(f, FALSE, <<"info:repo-exists-skipping">>, FALSE)
       ELSE LET rm == IF Exists(f, dir) THEN rmtree_force(f, dir, n)
                      ELSE [fs |-> f, err |-> FALSE]
                f1 == Mkdirs(rm.fs, dir \o <<"skills">>)
                cp == CopyItems(f1, Resolve(c, src), dir \o <<"skills">>,
                                codex_skill_items, TRUE)
                ap == append_dbcli_rules(cp.fs, lk, c, src, FALSE)
            IN Result(ap.fs, ap.err, <<"ok:codex-repo">> \o ap.out, FALSE)

\* deploy_codex_skills, second part: the REPO scope and the rules.
deploy_codex_repo(f, lk, c, src, force, n) ==
    LET dir == repo_codex_dbcli_dir(c)
    IN IF ~Exists(f, c \o <<".git">>)
       THEN LET ap == append_dbcli_rules(f, lk, c, src, FALSE)
            IN Result(ap.fs, ap.err, ap.out, FALSE)
       ELSE IF Exists(f, dir) /\ ~force
       THEN Result(f, FALSE, <<"info:repo-exists-skipping">>, FALSE)
       ELSE LET rm == IF Exists(f, dir) THEN rmtree_force(f, dir, n)
                      ELSE [fs |-> f, err |-> FALSE]
            IN IF rm.err THEN Result(rm.fs, TRUE, <<"warn:overwrite-repo">>, FALSE)
               ELSE LET f1 == Mkdirs(rm.fs, dir \o <<"skills">>)
                        cp == CopyItems(f1, Resolve(c, src), dir \o <<"skills">>,
                                        codex_skill_items, TRUE)
                    IN IF cp.err THEN Result(cp.fs, TRUE, <<>>, FALSE)
                       ELSE LET ap == append_dbcli_rules(cp.fs, lk, c, src, FALSE)
                            IN Result(ap.fs, ap.err, <<"ok:codex-repo">> \o ap.out, FALSE)

-----------------------------------------------------------------------------
(* main(): one run is MainStart, the selected deployers in their fixed     *)
(* order, MainFinish.  An exception no handler catches ends the run with   *)
(* a traceback and exit status 1.                                          *)

Targets == {"claude", "copilot", "codex", "workspace", "all"}

\* --claude-dir as given on the command line.
ClaudeDir == Home \o <<".claude">>

ArgSet ==
    [target : Targets, force : BOOLEAN, codex_global_only : BOOLEAN,
     claude_dir : {ClaudeDir}, package_claude_all : {FALSE},
     package_claude_skill : {<<>>}, package_out_dir : {RelPath(<<>>)}]

NoArgs == [target |-> "all", force |-> FALSE, codex_global_only |-> FALSE,
           claude_dir |-> ClaudeDir, package_claude_all |-> FALSE,
           package_claude_skill |-> <<>>, package_out_dir |-> RelPath(<<>>)]

\* Command lines that ask for packaging: --package-claude-all,
\* --package-claude-skill (repeatable), --package-out-dir.
RequestedSkills ==
    {<<>>, <<"a">>, <<"c">>, <<"missing">>, <<"a", "b">>, <<"b", "a">>, <<"missing", "a">>}

PackageArgSet ==
    {a \in [target : {"all"}, force : {FALSE}, codex_global_only : BOOLEAN,
            claude_dir : {ClaudeDir}, package_claude_all : BOOLEAN,
            package_claude_skill : RequestedSkills,
            package_out_dir : {RelPath(<<>>), RelPath(<<"out">>)}] :
        a.package_claude_all \/ a.package_claude_skill # <<>>}

\* The command lines of the runs of an environment.
CommandLines(e) == IF e.packaging THEN PackageArgSet ELSE ArgSet

\* What the operator may type at a prompt (after strip().lower()).
Replies == {"y", "n"}

\* bool(path): a Path object is always true.
Truthy(p) == TRUE

\* The stage main() enters first, and the one after a stage.
FirstStage(target) ==
    CASE target \in {"claude", "all"} -> "claude"
      [] target = "copilot" -> "copilot"
      [] target = "codex" -> "codex"
      [] target = "workspace" -> "workspace"

StageAfter(stage, target) ==
    IF target # "all" THEN "verify"
    ELSE CASE stage = "claude" -> "copilot"
           [] stage = "copilot" -> "codex"
           [] stage = "codex" -> "workspace"
           [] stage = "workspace" -> "verify"

\* The effect of a deployer's return (or of the exception it raised, which
\* ends the process: its command line and globals are gone).
Step(res, r, next) ==
    /\ fs' = res.fs
    /\ gone' = (\E q \in DOMAIN fs : q \notin DOMAIN res.fs)
    /\ out' = IF res.err THEN Append(res.out, "traceback") ELSE res.out
    /\ reply' = IF res.asked THEN r ELSE ""
    /\ pc' = IF res.err THEN "idle" ELSE next
    /\ exitCode' = IF res.err THEN 1 ELSE exitCode
    /\ args' = IF res.err THEN NoArgs ELSE args
    /\ SKILLS_SOURCE' = IF res.err THEN cwd_skills ELSE SKILLS_SOURCE
    /\ UNCHANGED <<cwd, env, ret, runs, edits>>

\* main() from parse_args to the assignment of SKILLS_SOURCE.
MainStart ==
    /\ pc = "idle"
    /\ runs < MaxRuns
    /\ \E a \in CommandLines(env) :
        LET skills_source == resolve_skills_source(fs, cwd)
            bad_flags == a.codex_global_only /\ a.target # "codex"
            unresolved == ~Truthy(skills_source)
                          \/ ~Exists(fs, Resolve(cwd, Join(skills_source, "INTEGRATION.md")))
        IN /\ runs' = runs + 1
           /\ reply' = ""
           /\ gone' = FALSE
           /\ IF bad_flags
              THEN /\ pc' = "idle"
                   /\ exitCode' = 1
                   /\ out' = <<"err:global-only-needs-codex">>
                   /\ UNCHANGED <<args, SKILLS_SOURCE, ret>>
              ELSE IF unresolved
              THEN /\ pc' = "idle"
                   /\ exitCode' = 1
                   /\ out' = <<"err:skills-not-found", "info:install-or-run-from-root">>
                   /\ ret' = skills_source
                   /\ UNCHANGED <<args, SKILLS_SOURCE>>
              ELSE /\ pc' = IF a.package_claude_all \/ a.package_claude_skill # <<>>
                           THEN "package" ELSE FirstStage(a.target)
                   /\ exitCode' = -1
                   /\ out' = <<>>
                   /\ args' = a
                   /\ ret' = skills_source
                   /\ SKILLS_SOURCE' = skills_source
    /\ UNCHANGED <<fs, cwd, env, edits>>

DeployClaude ==
    /\ pc = "claude"
    /\ \E r \in Replies, n \in env.rm :
        Step(deploy_claude_skills(fs, env.locked, cwd, SKILLS_SOURCE, args.claude_dir,
                                  args.force, r, n),
             r, StageAfter("claude", args.target))

DeployCopilot ==
    /\ pc = "copilot"
    /\ \E r \in Replies :
        Step(deploy_copilot_instructions(fs, env.locked, cwd, SKILLS_SOURCE, args.force, r),
             r, StageAfter("copilot", args.target))

DeployCodexUser ==
    /\ pc = "codex"
    /\ \E n \in env.rm :
        Step(deploy_codex_user(fs, cwd, SKILLS_SOURCE, args.force, n), "",
             IF args.codex_global_only THEN StageAfter("codex", args.target)
             ELSE "codex_repo")

DeployCodexRepo ==
    /\ pc = "codex_repo"
    /\ \E n \in env.rm :
        Step(deploy_codex_repo(fs, env.locked, cwd, SKILLS_SOURCE, args.force, n), "",
             StageAfter("codex", args.target))

\* iterdir's order is the directory's own.  Only the entry that lies on the
\* way to the destination can fail to copy; the model takes the two extreme
\* orders: that entry comes first, or after every other entry.
Handled(f, c, src) ==
    LET source_dir == Resolve(c, src)
        dest == workspace_skills_dir(c)
    IN IF IsPrefix(source_dir, dest) /\ Len(dest) > Len(source_dir)
       THEN {{}, Children(f, source_dir) \ {dest[Len(source_dir) + 1]}}
       ELSE {{}}

DeployWorkspace ==
    /\ pc = "workspace"
    /\ \E n \in env.rm, before \in Handled(fs, cwd, SKILLS_SOURCE) :
        Step(deploy_workspace_skills(fs, cwd, SKILLS_SOURCE, args.force, n, before), "",
             StageAfter("workspace", args.target))

\* verify_dbcli and the summary: they only print.
MainFinish ==
    /\ pc = "verify"
    /\ pc' = "idle"
    /\ exitCode' = 0
    /\ out' = <<"header:complete">>
    /\ reply' = ""
    /\ gone' = FALSE
    /\ args' = NoArgs
    /\ SKILLS_SOURCE' = cwd_skills
    /\ UNCHANGED <<fs, cwd, env, ret, runs, edits>>

-----------------------------------------------------------------------------
(* main() in packaging mode: the loop over the bundle names.  ret is the   *)
(* log of the loop: for each name attempted, in order, whether its archive *)
(* was created and whether the warning was printed.                        *)

\* A loop that ends at the first bundle that fails.
RECURSIVE PackageUntilFailure(_, _, _, _, _)
PackageUntilFailure(f, e, names, skills_source, out_dir) ==
    IF names = <<>> THEN [fs |-> f, ok |-> TRUE, log |-> <<>>, out |-> <<>>]
    ELSE LET r == package_claude_skill_zip(f, e, Head(names), skills_source, out_dir)
             rest == IF r.err = ""
                     THEN PackageUntilFailure(r.fs, e, Tail(names), skills_source, out_dir)
                     ELSE [fs |-> r.fs, ok |-> FALSE, log |-> <<>>, out |-> <<>>]
         IN [fs |-> rest.fs,
             ok |-> r.err = "" /\ rest.ok,
             log |-> <<[name |-> Head(names), created |-> r.err = "",
                        warned |-> r.warned, err |-> r.err]>> \o rest.log,
             out |-> (IF r.err = "" THEN <<"ok:created">> ELSE <<"err:package">>) \o rest.out]

RECURSIVE PackageEach(_, _, _, _, _)
PackageEach(f, e, names, skills_source, out_dir) ==
    IF names = <<>> THEN [fs |-> f, ok |-> TRUE, log |-> <<>>, out |-> <<>>]
    ELSE LET r == package_claude_skill_zip(f, e, Head(names), skills_source, out_dir)
             rest == PackageEach(r.fs, e, Tail(names), skills_source, out_dir)
         IN [fs |-> rest.fs,
             ok |-> r.err = "" /\ rest.ok,
             log |-> <<[name |-> Head(names), created |-> r.err = "",
                        warned |-> r.warned, err |-> r.err]>> \o rest.log,
             out |-> (IF r.warned THEN <<"warn:no-skill-md">> ELSE <<>>)
                     \o (IF r.err = "" THEN <<"ok:created">> ELSE <<"err:package">>)
                     \o rest.out]

Package ==
    /\ pc = "package"
    /\ LET out_dir == Resolve(cwd, args.package_out_dir)
           skill_names == IF args.package_claude_all
                          THEN get_claude_skill_names(fs, Resolve(cwd, SKILLS_SOURCE))
                          ELSE args.package_claude_skill
           r == PackageEach(fs, env, skill_names, Resolve(cwd, SKILLS_SOURCE), out_dir)
       IN IF args.package_claude_all /\ args.package_claude_skill # <<>>
          THEN /\ exitCode' = 1
               /\ out' = <<"err:either-all-or-skill">>
               /\ UNCHANGED <<fs, ret>>
          ELSE IF skill_names = <<>>
          THEN /\ exitCode' = 1
               /\ out' = <<"err:no-skills">>
               /\ UNCHANGED <<fs, ret>>
          ELSE /\ fs' = r.fs
               /\ ret' = r.log
               /\ exitCode' = IF r.ok THEN 0 ELSE 1
               /\ out' = IF r.ok THEN Append(r.out, "info:upload") ELSE r.out
    /\ pc' = "idle"
    /\ gone' = (\E q \in DOMAIN fs : q \notin DOMAIN fs')
    /\ reply' = ""
    /\ args' = NoArgs
    /\ SKILLS_SOURCE' = cwd_skills
    /\ UNCHANGED <<cwd, env, runs, edits>>

NextPackage ==
    \/ MainStart
    \/ Package

-----------------------------------------------------------------------------
(* The source between two runs: an item is removed, the guide is edited.   *)

SourceRoots == {Resolve(<<>>, script_skills), Resolve(<<>>, tools_skills)}

Removable == {<<"dbcli-query", "ref.md">>, <<"dbcli-exec">>}

RemoveSourceItem ==
    /\ pc = "idle"
    /\ runs >= 1
    /\ edits < MaxEdits
    /\ \E root \in SourceRoots, item \in Removable :
        /\ Exists(fs, root \o item)
        /\ fs' = Rmtree(fs, root \o item)
    /\ edits' = edits + 1
    /\ UNCHANGED <<cwd, env, pc, args, SKILLS_SOURCE, ret, exitCode, out, reply, gone, runs>>

EditIntegration ==
    /\ pc = "idle"
    /\ runs >= 1
    /\ edits < MaxEdits
    /\ \E root \in SourceRoots \cup {cwd}, doc \in env.docs :
        /\ Exists(fs, root \o <<"INTEGRATION.md">>)
        /\ fs[root \o <<"INTEGRATION.md">>].data # doc
        /\ fs' = WriteFile(fs, root \o <<"INTEGRATION.md">>, doc)
    /\ edits' = edits + 1
    /\ UNCHANGED <<cwd, env, pc, args, SKILLS_SOURCE, ret, exitCode, out, reply, gone, runs>>

Next ==
    \/ MainStart
    \/ DeployClaude
    \/ DeployCopilot
    \/ DeployCodexUser
    \/ DeployCodexRepo
    \/ DeployWorkspace
    \/ MainFinish
    \/ RemoveSourceItem
    \/ EditIntegration

-----------------------------------------------------------------------------
(* Initial file systems                                                    *)

\* Guides: a heading, the Copilot section with its template, the rules region.
GuideHead == <<"# DbCli Integration", NL, NL>>

CopilotPart ==
    <<CopilotHeading, NL, FenceOpen, NL, "Use dbcli for database work", NL,
      FenceClose, NL, NL, NextHeading, " OpenAI Codex", NL, NL>>

Region(text) == StartSentinel \o <<NL>> \o text \o <<NL>> \o EndSentinel \o <<NL>>

DocA == GuideHead \o CopilotPart \o Region(<<"Rule A">>)
DocB == GuideHead \o CopilotPart \o Region(<<NL, "Rule B", NL, "Rule C", NL>>)
DocNone == GuideHead
PlainDocs == {DocA, DocB, DocNone}

BaseDirs == [p \in {Home, ScriptDir, ProjDir} |-> DirNode]

\* A skills directory at root: two listed bundles, one bundle of its own,
\* the readme, and the guide when doc is given.
SkillsTree(root, doc, withGuide) ==
    LET files == [p \in {root \o <<"README.md">>,
                         root \o <<"dbcli-query", "SKILL.md">>,
                         root \o <<"dbcli-query", "ref.md">>,
                         root \o <<"dbcli-exec", "SKILL.md">>,
                         root \o <<"custom", "SKILL.md">>}
                  |-> FileNode(<<"text of ", p[Len(p) - 1], "/", p[Len(p)]>>)]
        guide == IF withGuide
                 THEN [p \in {root \o <<"INTEGRATION.md">>} |-> FileNode(doc)]
                 ELSE <<>>
        dirs == [p \in Ancestors(root) \cup {root \o <<"dbcli-query">>,
                                             root \o <<"dbcli-exec">>,
                                             root \o <<"custom">>} |-> DirNode]
    IN files @@ guide @@ dirs

EmptyFs == [p \in {} |-> DirNode]

\* CLAUDE.md as the project may hold it before the first run.
HostPre(c, kind) ==
    CASE kind = "absent" -> EmptyFs
      [] kind = "text" -> [p \in {c \o <<"CLAUDE.md">>} |-> FileNode(<<"# Project notes", NL>>)]
      [] kind = "block" -> [p \in {c \o <<"CLAUDE.md">>} |->
                              FileNode(<<"# Project notes", NL>> \o Region(<<"Old rule">>))]

GitMarker(c, git) == IF git THEN [p \in {c \o <<".git">>} |-> DirNode] ELSE EmptyFs

InitFs(c, script, tools, doc, git, pre) ==
    (IF script THEN SkillsTree(Resolve(<<>>, script_skills), doc, TRUE) ELSE EmptyFs)
    @@ (IF tools THEN SkillsTree(Resolve(<<>>, tools_skills), doc, TRUE) ELSE EmptyFs)
    @@ GitMarker(c, git) @@ HostPre(c, pre) @@ BaseDirs

Env(locked, pre) ==
    [locked |-> locked, rm |-> {<<>>}, docs |-> PlainDocs, pre |-> pre,
     packaging |-> FALSE, unreadable |-> {}]

InitCommon ==
    /\ pc = "idle"
    /\ args = NoArgs
    /\ SKILLS_SOURCE = cwd_skills
    /\ ret = NotFound
    /\ exitCode = -1
    /\ out = <<>>
    /\ reply = ""
    /\ gone = FALSE
    /\ runs = 0
    /\ edits = 0

\* Runs from a project directory with the skills beside the script; the
\* project is a git repository or not and holds a CLAUDE.md or not.
Init ==
    /\ cwd = ProjDir
    /\ \E git \in BOOLEAN, pre \in {"absent", "text", "block"} :
        /\ fs = InitFs(cwd, TRUE, FALSE, DocA, git, pre)
        /\ env = Env({}, pre)
    /\ InitCommon

Spec == Init /\ [][Next]_vars

\* Runs where no candidate is a skills source: the script's skills directory
\* is missing or lacks its guide, and the project may hold a guide of its own.
StrayGuide(c, stray) ==
    IF stray THEN [p \in {c \o <<"INTEGRATION.md">>} |-> FileNode(DocA)] ELSE EmptyFs

InitStray ==
    /\ cwd = ProjDir
    /\ \E partial \in BOOLEAN, stray \in BOOLEAN, git \in BOOLEAN :
        fs = (IF partial THEN SkillsTree(Resolve(<<>>, script_skills), DocA, FALSE)
              ELSE EmptyFs)
             @@ StrayGuide(cwd, stray) @@ GitMarker(cwd, git) @@ BaseDirs
    /\ env = Env({}, "absent")
    /\ InitCommon

SpecStray == InitStray /\ [][Next]_vars

\* Runs from the repository root (the directory holding skills/) and from
\* inside the skills directory itself.
InitSelf ==
    /\ cwd \in {ScriptDir, Resolve(<<>>, script_skills)}
    /\ \E git \in BOOLEAN : fs = InitFs(cwd, TRUE, FALSE, DocA, git, "absent")
    /\ env = Env({}, "absent")
    /\ InitCommon

SpecSelf == InitSelf /\ [][Next]_vars

\* Runs in which one host file cannot be opened for writing.
InitFault ==
    /\ cwd = ProjDir
    /\ fs = InitFs(cwd, TRUE, FALSE, DocA, TRUE, "absent")
    /\ \E h \in {<<"Claude.md">>, <<".gemini", "skills.yaml">>, copilot_file} :
        env = Env({cwd \o h}, "absent")
    /\ InitCommon

SpecFault == InitFault /\ [][Next]_vars

\* Packaging runs.  The source holds the bundles a (with a subdirectory),
\* b (without SKILL.md; with a lower-case skill.md or no manifest at all),
\* c (its manifest alone, or in two casings) and dbcli-query; an archive
\* a.zip and an archive missing.zip, named after a bundle the source does
\* not hold, may be there already (empty, from an interrupted run); one file
\* of a may be unreadable, or a.zip in the default output directory may be
\* unwritable.
PackageSource(root, bManifest, cTwice) ==
    LET files == [p \in {root \o <<"dbcli-query", "SKILL.md">>,
                         root \o <<"a", "SKILL.md">>,
                         root \o <<"a", "notes", "x.md">>,
                         root \o <<"b", "README.md">>,
                         root \o <<"c", "SKILL.md">>}
                  |-> FileNode(<<"text of ", p[Len(p) - 1], "/", p[Len(p)]>>)]
        guide == [p \in {root \o <<"INTEGRATION.md">>} |-> FileNode(DocA)]
        bfile == IF bManifest
                 THEN [p \in {root \o <<"b", "skill.md">>} |-> FileNode(<<"manifest of b">>)]
                 ELSE EmptyFs
        cfile == IF cTwice
                 THEN [p \in {root \o <<"c", "skill.md">>} |-> FileNode(<<"other manifest of c">>)]
                 ELSE EmptyFs
        dirs == [p \in Ancestors(root \o <<"a", "notes">>)
                       \cup {root \o <<"dbcli-query">>, root \o <<"b">>, root \o <<"c">>}
                 |-> DirNode]
    IN files @@ guide @@ bfile @@ cfile @@ dirs

PackageFaults == {"none", "unreadable", "locked"}

InitPackage ==
    /\ cwd = ProjDir
    /\ \E bManifest \in BOOLEAN, cTwice \in BOOLEAN, fault \in PackageFaults :
        /\ fs = PackageSource(Resolve(<<>>, script_skills), bManifest, cTwice)
                @@ (IF fault = "none"
                    THEN [p \in {cwd \o <<ZipName("a")>>, cwd \o <<ZipName("missing")>>}
                          |-> FileNode(<<>>)]
                    ELSE EmptyFs)
                @@ [p \in {TempDir} |-> DirNode] @@ BaseDirs
        /\ env = [Env(IF fault = "locked" THEN {cwd \o <<ZipName("a")>>} ELSE {}, "absent")
                    EXCEPT !.packaging = TRUE,
                           !.unreadable = IF fault = "unreadable"
                                          THEN {Resolve(<<>>, script_skills)
                                                \o <<"a", "notes", "x.md">>}
                                          ELSE {}]
    /\ InitCommon

SpecPackage == InitPackage /\ [][NextPackage]_vars

\* rmtree_force on its own: a destination of a deployer is removed while
\* the calls of shutil.rmtree raise PermissionError or another OSError.
RmTargets ==
    {claude_skills_dir(ClaudeDir), user_codex_dbcli_dir, repo_codex_dbcli_dir(ProjDir),
     workspace_skills_dir(ProjDir)}

Raised == {"PermissionError", "OSError"}

FailLists == UNION {[1..k -> Raised] : k \in 0..MaxFails}

InitRm ==
    /\ cwd = ProjDir
    /\ fs = [p \in {t \o <<"README.md">> : t \in RmTargets} |-> FileNode(<<"text">>)]
            @@ [p \in UNION {Ancestors(t) : t \in RmTargets} |-> DirNode] @@ BaseDirs
    /\ \E path \in RmTargets, fails \in FailLists : args = [path |-> path, fails |-> fails]
    /\ env = Env({}, "absent")
    /\ pc = "idle"
    /\ SKILLS_SOURCE = cwd_skills
    /\ ret = NotFound
    /\ exitCode = -1
    /\ out = <<>>
    /\ reply = ""
    /\ gone = FALSE
    /\ runs = 0
    /\ edits = 0

RmCall ==
    /\ pc = "idle"
    /\ LET r == rmtree_force(fs, args.path, args.fails)
       IN /\ fs' = r.fs
          /\ ret' = [err |-> r.err, attempts |-> r.attempts, sleeps |-> r.sleeps]
    /\ pc' = "returned"
    /\ UNCHANGED <<cwd, env, args, SKILLS_SOURCE, exitCode, out, reply, gone, runs, edits>>

SpecRm == InitRm /\ [][RmCall]_vars

-----------------------------------------------------------------------------
(* resolve_skills_source on its own: every combination of what the three   *)
(* candidate directories hold, from three working directories.             *)

CandidateShapes == {"none", "guide", "bundle", "nomanifest", "full"}

CandidateTree(root, shape) ==
    LET guide == [p \in {root \o <<"INTEGRATION.md">>} |-> FileNode(DocA)]
        manifest == [p \in {root \o <<"dbcli-query", "SKILL.md">>} |->
                        FileNode(<<"text of dbcli-query/SKILL.md">>)]
        bundle == [p \in Ancestors(root \o <<"dbcli-query">>) |-> DirNode]
        top == [p \in Ancestors(root) |-> DirNode]
    IN CASE shape = "none" -> EmptyFs
         [] shape = "guide" -> guide @@ top
         [] shape = "bundle" -> manifest @@ bundle
         [] shape = "nomanifest" -> guide @@ bundle
         [] shape = "full" -> guide @@ manifest @@ bundle

InitResolve ==
    /\ cwd \in {ProjDir, ScriptDir, Home \o <<"tools", "dbcli">>}
    /\ \E s1 \in CandidateShapes, s2 \in CandidateShapes, s3 \in CandidateShapes :
        fs = CandidateTree(Resolve(cwd, script_skills), s1)
             @@ CandidateTree(Resolve(cwd, tools_skills), s2)
             @@ CandidateTree(Resolve(cwd, cwd_skills), s3)
             @@ [p \in Ancestors(cwd) |-> DirNode] @@ BaseDirs
    /\ env = Env({}, "absent")
    /\ InitCommon

ResolveCall ==
    /\ pc = "idle"
    /\ pc' = "returned"
    /\ ret' = resolve_skills_source(fs, cwd)
    /\ UNCHANGED <<fs, cwd, env, args, SKILLS_SOURCE, exitCode, out, reply, gone, runs, edits>>

SpecResolve == InitResolve /\ [][ResolveCall]_vars

-----------------------------------------------------------------------------
(* append_dbcli_rules_to_file on its own: calls on one host file, which    *)
(* is absent, empty or holds text, a bare mention of the marker, or a      *)
(* block of either wrapper; args holds the arguments of the latest call.   *)

HostFiles ==
    {<<"CLAUDE.md">>, <<".cursorrules">>, <<".gemini", "skills.yaml">>,
     <<"rules.YML">>, <<"notes", "rules.Yaml">>}

HostKinds == {"absent", "empty", "text", "mention", "block", "yamlblock"}

HostText(kind) ==
    CASE kind = "empty" -> <<>>
      [] kind = "text" -> <<"# Project notes", NL>>
      [] kind = "mention" -> <<"see ", marker, " in the guide", NL>>
      [] kind = "block" -> <<"# Project notes", NL>> \o Region(<<"Old rule">>)
      [] kind = "yamlblock" -> <<"key: value", NL, "# ", marker, NL, "# Old rule", NL,
                                 "# ", endMarker, NL>>

Fragments == {<<>>, <<"Rule A">>, <<"Rule B", NL, NL, "Rule C">>}

InitInject ==
    /\ cwd = ProjDir
    /\ \E host \in HostFiles, kind \in HostKinds :
        /\ fs = (IF kind = "absent" THEN EmptyFs
                 ELSE [p \in {cwd \o host} |-> FileNode(HostText(kind))]
                      @@ [p \in Ancestors(Parent(cwd \o host)) |-> DirNode])
                @@ BaseDirs
        /\ args = [path |-> cwd \o host, rules_text |-> <<>>]
        /\ env = Env({}, kind)
    /\ pc = "idle"
    /\ SKILLS_SOURCE = cwd_skills
    /\ ret = NotFound
    /\ exitCode = -1
    /\ out = <<>>
    /\ reply = ""
    /\ gone = FALSE
    /\ runs = 0
    /\ edits = 0

InjectCall ==
    /\ pc = "idle"
    /\ runs < MaxCalls
    /\ \E rules_text \in Fragments :
        /\ fs' = append_dbcli_rules_to_file(fs, env.locked, args.path, rules_text).fs
        /\ args' = [args EXCEPT !.rules_text = rules_text]
    /\ runs' = runs + 1
    /\ UNCHANGED <<cwd, env, pc, SKILLS_SOURCE, ret, exitCode, out, reply, gone, edits>>

SpecInject == InitInject /\ [][InjectCall]_vars

-----------------------------------------------------------------------------
(* Claims                                                                  *)

\* The AssetSource invariant of the specification: the integration guide
\* and the canary bundle dbcli-query with its manifest.
IsAssetSource(f, dir) ==
    /\ Exists(f, dir \o <<"INTEGRATION.md">>)
    /\ Exists(f, dir \o <<"dbcli-query", "SKILL.md">>)

QualifyingCandidates(f, c) ==
    {i \in 1..Len(Candidates) : IsAssetSource(f, Resolve(c, Candidates[i]))}

\* C1: resolve_skills_source returns the first candidate, in the order
\* script directory, ~/tools/dbcli, working directory, whose skills directory
\* holds INTEGRATION.md and dbcli-query/SKILL.md, and Path() when none does.
C1_FirstQualifyingCandidate ==
    pc = "returned" =>
        LET q == QualifyingCandidates(fs, cwd)
        IN IF q = {} THEN ret = NotFound ELSE ret = Candidates[Min(q)]

\* The script's candidate fails, the two later ones qualify, and the one
\* under ~/tools is the one returned.
C1_Witness ==
    /\ pc = "returned"
    /\ QualifyingCandidates(fs, cwd) = {2, 3}
    /\ Resolve(cwd, cwd_skills) # Resolve(cwd, tools_skills)
    /\ ret = tools_skills

NoCandidate(f, c) == QualifyingCandidates(f, c) = {}

\* C2: a run of main that starts while no candidate directory holds both the
\* guide and dbcli-query/SKILL.md ends at once with a non-zero exit status
\* and deploys, injects and packages nothing.
C2_NoCandidateFailsFast ==
    [][(runs' = runs + 1 /\ NoCandidate(fs, cwd))
         => (pc' = "idle" /\ exitCode' > 0 /\ fs' = fs)]_vars

\* The host file of the calls, and its content (empty when it is absent).
HostData(f, path) == IF Exists(f, path) THEN f[path].data ELSE <<>>

\* C3: once append_dbcli_rules_to_file has been called on a host file with
\* a non-empty fragment, a further call leaves the file system as it is.
C3_InjectionIdempotent ==
    [][(runs' = runs + 1 /\ runs >= 1 /\ args.rules_text # <<>>) => fs' = fs]_vars

\* The first call created the host file with fragment Rule A, the second
\* call came with another fragment and the file still holds the first block.
C3_Witness ==
    /\ runs = 2
    /\ env.pre = "absent"
    /\ args.rules_text = <<"Rule B", NL, NL, "Rule C">>
    /\ HostData(fs, args.path) = RulesBlock(args.path[Len(args.path)], <<"Rule A">>)

\* The paths of f other than path and the directories above it.
Elsewhere(f, path) == {q \in DOMAIN f : q # path /\ ~IsPrefix(q, path)}

\* C5: a call with a non-empty fragment leaves the file system as it is
\* when the host's content holds the opening marker DBCLI_RULES_START, and
\* only then; otherwise the host file (taken as empty when absent) and the
\* directories above it exist afterwards, and the file holds its previous
\* content followed by the fragment wrapped in the sentinel pair.
C5_SkipIffMarkerPresent ==
    [][(runs' = runs + 1 /\ args'.rules_text # <<>>)
         => LET path == args.path
                existing == HostData(fs, path)
            IN IF Contains(existing, marker)
               THEN fs' = fs
               ELSE /\ fs' # fs
                    /\ IsFile(fs', path)
                    /\ fs'[path].data = existing \o RulesBlock(path[Len(path)], args'.rules_text)
                    /\ \A d \in Ancestors(Parent(path)) : IsDir(fs', d)
                    /\ \A q \in Elsewhere(fs, path) : q \in DOMAIN fs' /\ fs'[q] = fs[q]
                    /\ \A q \in DOMAIN fs' : q \in DOMAIN fs \/ IsPrefix(q, path)]_vars

\* An absent host file below an absent directory was created, with the
\* fragment in the line-comment wrapper.
C5_Witness ==
    /\ runs = 1
    /\ args.rules_text = <<"Rule B", NL, NL, "Rule C">>
    /\ env.pre = "absent"
    /\ args.path = cwd \o <<"notes", "rules.Yaml">>
    /\ IsDir(fs, cwd \o <<"notes">>)
    /\ HostData(fs, args.path) =
           <<NL, NL, "# ", marker, NL, "# ", "Rule B", NL, "# ", NL, "# ", "Rule C", NL,
             "# ", endMarker, NL>>

\* How often tok occurs in text.
Count(text, tok) == Cardinality({i \in 1..Len(text) : text[i] = tok})

\* The host files of the working directory, and the rule fragments the
\* guides of the runs hold.
AllHostFiles == {rule_files[i] : i \in 1..Len(rule_files)} \cup {copilot_file}
GuideFragments == {<<"Rule A">>, <<"Rule B", NL, "Rule C">>}

\* Whether host file h existed before the first run.
PreExisting(h) == h = <<"CLAUDE.md">> /\ env.pre # "absent"

\* C4: whatever runs were made and however the guide changed between them,
\* each host file holds the opening marker at most once, and a host file of
\* the list that the injection created holds exactly one fragment of a
\* guide, wrapped in the sentinel pair of its extension.
C4_AtMostOneBlock ==
    /\ \A h \in AllHostFiles : Count(HostData(fs, cwd \o h), marker) <= 1
    /\ \A i \in 1..Len(rule_files) :
          LET h == rule_files[i]
              name == h[Len(h)]
              data == HostData(fs, cwd \o h)
          IN (Exists(fs, cwd \o h) /\ ~PreExisting(h)) =>
                \E frag \in GuideFragments :
                    /\ Count(data, marker) = 1
                    /\ Count(data, endMarker) = 1
                    /\ data = IF name \in {"skills.yaml", "skills.yml"}
                              THEN <<NL, NL, "# ", marker, NL>>
                                   \o JoinLines([k \in 1..Len(splitlines(frag)) |->
                                                    <<"# ">> \o splitlines(frag)[k]])
                                   \o <<NL, "# ", endMarker, NL>>
                              ELSE <<NL, NL>> \o StartSentinel \o <<NL>> \o frag
                                   \o <<NL>> \o EndSentinel \o <<NL>>

\* The first run created CLAUDE.md with Rule A; the guide then changed to
\* Rule B and Rule C, and a second, forced Claude deployment has completed.
C4_Witness ==
    /\ runs = 2
    /\ edits = 1
    /\ env.pre = "absent"
    /\ Contains(out, "ok:claude")
    /\ args.force
    /\ get_dbcli_rules_block(fs, cwd, SKILLS_SOURCE) = <<"Rule B", NL, "Rule C">>
    /\ HostData(fs, cwd \o <<"CLAUDE.md">>) =
           <<NL, NL>> \o StartSentinel \o <<NL, "Rule A", NL>> \o EndSentinel \o <<NL>>

\* C6: when the injection cannot write one host file, every other host file
\* of the list is still given the block (the first file of the list holding
\* it shows that the loop has run).
C6_FailureIsolatedPerFile ==
    Contains(HostData(fs, cwd \o rule_files[1]), marker) =>
        \A i \in 1..Len(rule_files) :
            (cwd \o rule_files[i]) \notin env.locked =>
                Contains(HostData(fs, cwd \o rule_files[i]), marker)

\* What f holds at root and below it.
TreeUnder(f, root) ==
    [q \in {q \in DOMAIN f : IsPrefix(root, q)} |-> f[q]]

NonEmptyDir(f, root) == IsDir(f, root) /\ Children(f, root) # {}

\* C7: a deployer called without force on a destination that exists and is
\* not empty, with no "y" from the operator, leaves the destination as it
\* was: the Claude directory, the Copilot instructions file, the Codex USER
\* and REPO directories, the workspace directory skills/dbcli.
C7_NoForceNoConfirmKeepsDestination ==
    [][~args.force =>
        /\ (pc = "claude" /\ NonEmptyDir(fs, claude_dbcli_dir(args.claude_dir))
               /\ reply' # "y")
            => TreeUnder(fs', claude_dbcli_dir(args.claude_dir))
                 = TreeUnder(fs, claude_dbcli_dir(args.claude_dir))
        /\ (pc = "copilot" /\ HostData(fs, cwd \o copilot_file) # <<>> /\ reply' # "y")
            => TreeUnder(fs', cwd \o copilot_file) = TreeUnder(fs, cwd \o copilot_file)
        /\ (pc = "codex" /\ NonEmptyDir(fs, user_codex_dbcli_dir))
            => TreeUnder(fs', user_codex_dbcli_dir) = TreeUnder(fs, user_codex_dbcli_dir)
        /\ (pc = "codex_repo" /\ NonEmptyDir(fs, repo_codex_dbcli_dir(cwd)))
            => TreeUnder(fs', repo_codex_dbcli_dir(cwd))
                 = TreeUnder(fs, repo_codex_dbcli_dir(cwd))
        /\ (pc = "workspace" /\ NonEmptyDir(fs, workspace_skills_dir(cwd)))
            => TreeUnder(fs', workspace_skills_dir(cwd))
                 = TreeUnder(fs, workspace_skills_dir(cwd))]_vars

\* The destination dst holds exactly the copies of the entries of the source
\* directory whose first name is in items.
DestMatchesSource(f, srcdir, dstdir, items) ==
    LET rels == {Tail2(q, Len(srcdir)) : q \in {q \in DOMAIN f :
                    IsPrefix(srcdir, q) /\ Len(q) > Len(srcdir)
                    /\ q[Len(srcdir) + 1] \in items}}
    IN /\ {q \in DOMAIN f : IsPrefix(dstdir, q) /\ q # dstdir} = {dstdir \o r : r \in rels}
       /\ \A r \in rels : f[dstdir \o r] = f[srcdir \o r]

ItemSet(items) == {items[i] : i \in 1..Len(items)}

\* C8: when a forced deployment of a target has completed, its destination
\* holds the copies of what the source holds now, and nothing else;
\* whatever an earlier run copied there and the source has lost is gone.
C8_ForceLeavesOnlyCurrentSource ==
    args.force =>
        LET srcdir == Resolve(cwd, SKILLS_SOURCE)
        IN /\ Contains(out, "ok:claude") =>
                DestMatchesSource(fs, srcdir, claude_skills_dir(args.claude_dir),
                                  ItemSet(claude_skill_items))
           /\ Contains(out, "ok:codex-user") =>
                DestMatchesSource(fs, srcdir, user_codex_dbcli_dir \o <<"skills">>,
                                  ItemSet(codex_skill_items))
           /\ Contains(out, "ok:codex-repo") =>
                DestMatchesSource(fs, srcdir, repo_codex_dbcli_dir(cwd) \o <<"skills">>,
                                  ItemSet(codex_skill_items))
           /\ Contains(out, "ok:workspace") =>
                DestMatchesSource(fs, srcdir, workspace_skills_dir(cwd),
                                  Children(fs, srcdir))

\* The second run is a forced Claude deployment made after the source lost
\* the bundle dbcli-exec, which the first run had copied: the deployment
\* removed it from the destination.
C8_Witness ==
    /\ runs = 2
    /\ edits = 1
    /\ args.force
    /\ Contains(out, "ok:claude")
    /\ gone
    /\ ~Exists(fs, Resolve(cwd, SKILLS_SOURCE) \o <<"dbcli-exec">>)
    /\ ~Exists(fs, claude_skills_dir(args.claude_dir) \o <<"dbcli-exec">>)
    /\ Exists(fs, claude_skills_dir(args.claude_dir) \o <<"dbcli-query", "ref.md">>)

\* C9: the workspace deployer called with the working directory in the
\* skills source, or below it, prints its warning and leaves every file
\* and directory as it is.
C9_SelfDeploymentTouchesNothing ==
    [][(pc = "workspace" /\ IsPrefix(Resolve(cwd, SKILLS_SOURCE), cwd))
         => (fs' = fs /\ Contains(out', "warn:in-skills-root"))]_vars

RepoWritable ==
    /\ ~args.codex_global_only
    /\ Exists(fs, cwd \o <<".git">>)
    /\ (~Exists(fs, repo_codex_dbcli_dir(cwd)) \/ args.force)

\* C10: the REPO scope of the Codex deployer is entered only from its USER
\* scope; the repository's .codex/skills/dbcli is written when global-only
\* is off, .git exists in the working directory and the destination is
\* absent or force is set; in every other case no step changes it, and the
\* Codex steps end without an exception.
C10_CodexUserThenGuardedRepo ==
    [][LET repo == repo_codex_dbcli_dir(cwd)
           changed == TreeUnder(fs', repo) # TreeUnder(fs, repo)
       IN /\ pc' = "codex_repo" => pc = "codex"
          /\ (pc = "codex" /\ ~args.codex_global_only) => pc' = "codex_repo"
          /\ changed => (pc = "codex_repo" /\ RepoWritable)
          /\ (pc = "codex_repo" /\ RepoWritable) =>
                (Contains(out', "ok:codex-repo") /\ IsDir(fs', repo \o <<"skills">>))
          /\ (pc \in {"codex", "codex_repo"} /\ ~RepoWritable) =>
                (~Contains(out', "traceback") /\ pc' # "idle")]_vars

\* A forced run has replaced the repository's copy, which an earlier run
\* had made before the source lost dbcli-query/ref.md.
C10_Witness ==
    /\ runs = 2
    /\ args.force
    /\ Contains(out, "ok:codex-repo")
    /\ gone
    /\ Exists(fs, cwd \o <<".git">>)
    /\ ~Exists(fs, repo_codex_dbcli_dir(cwd) \o <<"skills", "dbcli-query", "ref.md">>)

\* The rule files of the working directory hold the block, or the guide of
\* the source has no rules to inject.
Injected ==
    \/ get_dbcli_rules_block(fs, cwd, SKILLS_SOURCE) = <<>>
    \/ \A i \in 1..Len(rule_files) :
          Contains(HostData(fs, cwd \o rule_files[i]), marker)

\* C11: when a deployer has deployed its assets and returned, the rules
\* have been injected into the host files of the working directory: after
\* the Claude, Copilot and workspace deployers, and after the Codex deployer
\* on each of its paths (global-only, REPO written, REPO skipped).
C11_EveryDeployInjects ==
    ~Contains(out, "traceback") =>
        /\ Contains(out, "ok:claude") => Injected
        /\ Contains(out, "ok:copilot") => Injected
        /\ Contains(out, "ok:codex-repo") => Injected
        /\ Contains(out, "info:repo-exists-skipping") => Injected
        /\ (Contains(out, "ok:codex-user") /\ args.codex_global_only) => Injected
        /\ Contains(out, "ok:workspace") => Injected

\* The source of the packaging runs, the directories archives are written
\* to, and the archives packaging has written (an empty file is none).
PackagedSource == Resolve(<<>>, script_skills)
OutDirs == {ProjDir, ProjDir \o <<"out">>}
BundleNames == {"a", "b", "c", "dbcli-query"}

Written(f, zip_path) == IsFile(f, zip_path) /\ f[zip_path].data # <<>>

\* What extracting an archive yields: for each path of a file entry the
\* data of the last entry of that path.
Extract(entries) ==
    LET idx == {i \in 1..Len(entries) : ~entries[i].dir}
        last(nm) == CHOOSE i \in idx : /\ entries[i].name = nm
                                       /\ \A j \in idx : entries[j].name = nm => j <= i
    IN [nm \in {entries[i].name : i \in idx} |-> entries[last(nm)].data]

\* The path a file of the bundle must have in the archive.
EntryPath(bundle, rel) ==
    <<bundle>> \o (IF rel[Len(rel)] \in {"SKILL.md", "skill.md", "Skill.md"}
                   THEN SubSeq(rel, 1, Len(rel) - 1) \o <<"Skill.md">>
                   ELSE rel)

\* C12: extracting an archive that packaging wrote for a bundle yields one
\* file per regular file of the bundle, with the same content, the entry
\* paths being distinct and the manifest's entry named Skill.md for each
\* casing of the file on disk, also when several casings are present.
C12_PackagingRoundTrip ==
    \A d \in OutDirs, bundle \in BundleNames :
        LET zip_path == d \o <<ZipName(bundle)>>
            root == PackagedSource \o <<bundle>>
            files == {q \in DOMAIN fs : IsPrefix(root, q) /\ IsFile(fs, q)}
        IN Written(fs, zip_path) =>
            LET entries == fs[zip_path].data
                extracted == Extract(entries)
            IN /\ Cardinality({i \in 1..Len(entries) : ~entries[i].dir})
                    = Cardinality(DOMAIN extracted)
               /\ Cardinality(DOMAIN extracted) = Cardinality(files)
               /\ \A q \in files :
                    LET nm == EntryPath(bundle, Tail2(q, Len(root)))
                    IN nm \in DOMAIN extracted /\ extracted[nm] = fs[q].data

\* No file of bundle b is a manifest, in any casing.
LacksManifest(f, bundle) ==
    /\ IsDir(f, PackagedSource \o <<bundle>>)
    /\ \A n \in Children(f, PackagedSource \o <<bundle>>) :
          n \notin {"SKILL.md", "skill.md", "Skill.md"}

\* C13: a run with --package-claude-all, nothing being unreadable or
\* unwritable, over a source whose bundle b has no manifest writes a.zip and
\* b.zip, prints the warning for b and ends with status 0.
C13_PackageAllKeepsBundleWithoutManifest ==
    [][(/\ pc = "package"
        /\ args.package_claude_all /\ args.package_claude_skill = <<>>
        /\ env.locked = {} /\ env.unreadable = {}
        /\ LacksManifest(fs, "b"))
         => LET d == Resolve(cwd, args.package_out_dir)
            IN /\ Written(fs', d \o <<ZipName("a")>>)
               /\ Written(fs', d \o <<ZipName("b")>>)
               /\ Contains(out', "warn:no-skill-md")
               /\ exitCode' = 0]_vars

\* Position of a bundle name in the alphabet of the names.
Rank(n) == CHOOSE i \in 1..Len(NameOrder) : NameOrder[i] = n

\* The packaging loop is reached: one of the two flags, not both.
LoopReached == pc = "package" /\ ~(args.package_claude_all /\ args.package_claude_skill # <<>>)

\* C14: the packaging loop attempts every name of the list, in list order
\* (for --package-claude-all: the directories holding SKILL.md, in
\* alphabetical order), also past a bundle that failed; each bundle that
\* succeeded has its archive; and the status is 1 exactly when a bundle
\* failed, 0 otherwise.
C14_AllBundlesAttempted ==
    [][LoopReached =>
        LET log == ret'
            d == Resolve(cwd, args.package_out_dir)
            src == Resolve(cwd, SKILLS_SOURCE)
        IN /\ pc' = "idle"
           /\ IF args.package_claude_all
              THEN /\ {log[i].name : i \in 1..Len(log)}
                        = {n \in Children(fs, src) : IsFile(fs, src \o <<n, "SKILL.md">>)}
                   /\ \A i \in 1..(Len(log) - 1) : Rank(log[i].name) < Rank(log[i + 1].name)
              ELSE [i \in 1..Len(log) |-> log[i].name] = args.package_claude_skill
           /\ \A i \in 1..Len(log) :
                /\ log[i].created => Written(fs', d \o <<ZipName(log[i].name)>>)
                /\ ~IsDir(fs, src \o <<log[i].name>>) => ~log[i].created
           /\ (exitCode' # 0) <=> (\E i \in 1..Len(log) : ~log[i].created)
           /\ exitCode' \in {0, 1}]_vars

\* The first name has no directory and fails, the second is packaged after
\* it, and the run ends with status 1.
C14_Witness ==
    /\ pc = "idle"
    /\ Contains(out, "err:package")
    /\ Len(ret) = 2
    /\ ret[1].name = "missing" /\ ~ret[1].created
    /\ ret[2].name = "a" /\ ret[2].created
    /\ exitCode = 1
    /\ \E d \in OutDirs : Written(fs, d \o <<ZipName("a")>>)

C16_AllTargetsAttemptedInOrder ==
    [][/\ (runs' = runs + 1 /\ pc' # "idle" /\ args'.target = "all") => pc' = "claude"
       /\ args.target = "all" =>
            /\ pc = "claude" => pc' = "copilot"
            /\ pc = "copilot" => pc' = "codex"
            /\ pc = "codex" => pc' = "codex_repo"
            /\ pc = "codex_repo" => pc' = "workspace"
            /\ pc = "workspace" => pc' = "verify"]_vars

\* The messages of a run that ends for one of the fatal causes: the source
\* is not resolved, a packaging failed, or flags that exclude each other
\* were given (the two packaging flags; --codex-global-only with a target
\* other than codex is counted with them).
FatalCause ==
    \/ Contains(out, "err:skills-not-found")
    \/ Contains(out, "err:package")
    \/ Contains(out, "err:either-all-or-skill")
    \/ Contains(out, "err:global-only-needs-codex")

\* C17: a run that has ended has a non-zero status exactly when it ended
\* for one of the fatal causes; every other run, also one in which the
\* operator declined or a target was skipped, has status 0.
C17_ExitCodeOnlyForFatalCauses ==
    (pc = "idle" /\ runs >= 1) => ((exitCode # 0) <=> FatalCause)

\* The fragment with "# " before each of its lines.
RECURSIVE PrefixLines(_)
PrefixLines(t) ==
    IF t = <<>> THEN <<>>
    ELSE IF Head(t) = NL THEN <<NL, "# ">> \o PrefixLines(Tail(t))
    ELSE <<Head(t)>> \o PrefixLines(Tail(t))

\* File names whose extension is .yml or .yaml in some casing.
LineCommentNames == {"skills.yaml", "skills.yml", "rules.YML", "rules.Yaml"}

ExpectedBlock(name, frag) ==
    IF name \in LineCommentNames
    THEN <<NL, NL, "# ", marker, NL, "# ">> \o PrefixLines(frag) \o <<NL, "# ", endMarker, NL>>
    ELSE <<NL, NL, "<!-- ", marker, " -->", NL>> \o frag \o <<NL, "<!-- ", endMarker, " -->", NL>>

\* C18: a host file without the marker holds, after any calls, its first
\* content followed by at most one block; the block has the line-comment
\* form for .yml and .yaml in any casing and the block-comment form for
\* every other name, and once a non-empty fragment was passed the block is
\* there and later calls add nothing to it.
C18_WrapperByExtension ==
    LET name == args.path[Len(args.path)]
        first == IF env.pre = "absent" THEN <<>> ELSE HostText(env.pre)
        data == HostData(fs, args.path)
    IN IF Contains(first, marker)
       THEN data = first
       ELSE /\ \/ data = first
               \/ \E frag \in Fragments \ {<<>>} : data = first \o ExpectedBlock(name, frag)
            /\ (runs >= 1 /\ args.rules_text # <<>>) => data # first

\* rules.YML was created with the line-comment block of Rule B and Rule C,
\* and a second call with Rule A has left it as it was.
C18_Witness ==
    /\ runs = 2
    /\ env.pre = "absent"
    /\ args.path = cwd \o <<"rules.YML">>
    /\ args.rules_text = <<"Rule A">>
    /\ HostData(fs, args.path) =
           <<NL, NL, "# ", marker, NL, "# ", "Rule B", NL, "# ", NL, "# ", "Rule C", NL,
             "# ", endMarker, NL>>

\* The first attempt, of those rmtree_force may make, that ends the call:
\* the first that does not raise PermissionError, or the third.
Deciding(fails) ==
    CHOOSE k \in 1..3 :
        /\ \A i \in 1..(k - 1) : i <= Len(fails) /\ fails[i] = "PermissionError"
        /\ k = 3 \/ k > Len(fails) \/ fails[k] # "PermissionError"

\* C19: rmtree_force makes at most three attempts and ends with the first
\* that succeeds, the tree being removed; it has slept once after each
\* earlier attempt, each of which raised PermissionError; it raises when an
\* attempt fails otherwise or the third attempt fails, the tree then being
\* still there, and it returns normally in no other case.
C19_BoundedRetry ==
    pc = "returned" =>
        LET k == Deciding(args.fails)
        IN /\ ret.attempts = k
           /\ ret.attempts <= 3
           /\ ret.sleeps = k - 1
           /\ \A i \in 1..ret.sleeps : i <= 2 /\ args.fails[i] = "PermissionError"
           /\ ret.err <=> k <= Len(args.fails)
           /\ ret.err => IsDir(fs, args.path)
           /\ ~ret.err => ~Exists(fs, args.path)

\* Two attempts met a lock and the third removed the tree.
C19_Witness ==
    /\ pc = "returned"
    /\ args.fails = <<"PermissionError", "PermissionError">>
    /\ ~ret.err
    /\ ret.attempts = 3
    /\ ret.sleeps = 2
    /\ ~Exists(fs, args.path)

\* The skills source of the run under way, as an absolute path.
RunSource == Resolve(cwd, SKILLS_SOURCE)

\* C21: the skills source resolved for a run is read-only for the whole
\* run: no step of a deployer (any target, with or without force, from any
\* working directory) and no packaging step changes the set of files and
\* directories under the source or the contents of any of them.
C21_SourceReadOnly ==
    [][pc \notin {"idle", "returned"}
         => TreeUnder(fs', RunSource) = TreeUnder(fs, RunSource)]_vars

\* The destination roots of the deployers for a run in c with --claude-dir
\* claude_dir, each with the directory its items are copied into, the stage
\* of main() that deploys to it and the message that stage prints once it
\* has copied: the Claude directory (and the skills directory in it, the
\* one --force cleans), the Codex USER and REPO directories, the workspace
\* directory.
DestRoots(c, claude_dir) ==
    {[root |-> claude_dbcli_dir(claude_dir), into |-> claude_skills_dir(claude_dir),
      stage |-> "claude", done |-> "ok:claude"],
     [root |-> claude_skills_dir(claude_dir), into |-> claude_skills_dir(claude_dir),
      stage |-> "claude", done |-> "ok:claude"],
     [root |-> user_codex_dbcli_dir, into |-> user_codex_dbcli_dir \o <<"skills">>,
      stage |-> "codex", done |-> "ok:codex-user"],
     [root |-> repo_codex_dbcli_dir(c), into |-> repo_codex_dbcli_dir(c) \o <<"skills">>,
      stage |-> "codex_repo", done |-> "ok:codex-repo"],
     [root |-> workspace_skills_dir(c), into |-> workspace_skills_dir(c),
      stage |-> "workspace", done |-> "ok:workspace"]}

\* The directories the source holds, by name: the items a deployer
\* replaces one by one in the directory it copies into.
SourceDirs(f, srcdir) == {n \in Children(f, srcdir) : IsDir(f, srcdir \o <<n>>)}

\* Whether q lies in none of the item directories under into.
OutsideItems(items, into, q) == \A n \in items : ~IsPrefix(into \o <<n>>, q)

\* C22: in a run without --force no destination root that exists is
\* removed at any point, not even to be made again at once: the root and
\* whatever it holds outside the items copied stay (so a step that removes
\* a root belongs to a run with --force); and a root that does not exist is
\* created only by the step of its own target, and only when that step
\* goes on to copy (it prints its success message, or an exception ends
\* it), never when the target is skipped.
C22_RootsRemovedOnlyUnderForce ==
    [][(pc \notin {"idle", "returned"} /\ fs' # fs) =>
         LET items == SourceDirs(fs, RunSource)
         IN \A d \in DestRoots(cwd, args.claude_dir) :
               /\ (Exists(fs, d.root) /\ ~Exists(fs', d.root)) => args.force
               /\ (~args.force /\ Exists(fs, d.root)) =>
                      \A q \in DOMAIN fs :
                         (IsPrefix(d.root, q) /\ OutsideItems(items, d.into, q))
                            => q \in DOMAIN fs'
               /\ (~Exists(fs, d.root) /\ Exists(fs', d.root)) =>
                      /\ pc = d.stage
                      /\ Contains(out', d.done) \/ Contains(out', "traceback")]_vars

\* A second run without --force in which the operator answered y: the
\* Claude deployer copied into the directory the first run made and the
\* bundle the source has lost since is still in it.
C22_Witness ==
    /\ runs = 2
    /\ edits = 1
    /\ ~args.force
    /\ reply = "y"
    /\ Contains(out, "ok:claude")
    /\ ~Exists(fs, RunSource \o <<"dbcli-exec">>)
    /\ Exists(fs, claude_skills_dir(args.claude_dir) \o <<"dbcli-exec", "SKILL.md">>)

====
